---- MODULE Spec2Model ----
(***************************************************************************)
(* Model of the in-memory trading data store: the Database catalog         *)
(* (src/config/db.py) and the per-symbol AVLTree with its running          *)
(* aggregates, insertion log and one-entry statistics cache                *)
(* (src/data_structures/avl.py).                                           *)
(*                                                                         *)
(* Prices are modelled as integers (fixed-point prices); quotients that    *)
(* Python computes in floating point (mean, variance) are modelled as      *)
(* exact reduced fractions <<numerator, denominator>>.  Python's None is   *)
(* the empty tuple and a present optional value x is <<x>>.                *)
(***************************************************************************)
EXTENDS Integers, Sequences, FiniteSets, TLC

VARIABLES data_store, inserted, resp, running

vars == <<data_store, inserted, resp, running>>

(***************************************************************************)
(* Program constants (src/config/consts.py).                               *)
(***************************************************************************)
MAX_TRADE_POINTS_COUNT == 10000
MAX_SYMBOLS_COUNT == 10
MAX_SYMBOLS_LENGTH == 4
MAX_K_VALUE == 8

(***************************************************************************)
(* Python values.                                                          *)
(***************************************************************************)
None == <<>>
Some(x) == <<x>>

\* A request value as Python sees it: its run-time type and, for numbers,
\* its numeric value.
PyNumber(x) == [type |-> "float", val |-> x]
PyString == [type |-> "str", val |-> 0]

\* isinstance(value, (int, float))
IsNumber(value) == value.type \in {"int", "float"}

(***************************************************************************)
(* Exact arithmetic standing for Python's float arithmetic.                *)
(***************************************************************************)
Abs(a) == IF a < 0 THEN -a ELSE a

\* max(a, b) of two numbers
Max2(a, b) == IF a >= b THEN a ELSE b

RECURSIVE GCD(_, _)
GCD(a, b) == IF b = 0 THEN a ELSE GCD(b, a % b)

\* n / d with d > 0, as a reduced fraction.
Rat(n, d) ==
    LET g == GCD(Abs(n), d)
    IN  <<n \div g, d \div g>>

RatOfInt(a) == <<a, 1>>
RatAdd(p, q) == Rat(p[1] * q[2] + q[1] * p[2], p[2] * q[2])
RatSub(p, q) == Rat(p[1] * q[2] - q[1] * p[2], p[2] * q[2])
RatMul(p, q) == Rat(p[1] * q[1], p[2] * q[2])
RatDivInt(p, n) == Rat(p[1], p[2] * n)

\* float('inf') and float('-inf'), and min/max of such a value with a number.
PosInf == <<1, 0>>
NegInf == <<-1, 0>>
PyMin(ext, value) ==
    IF ext = PosInf THEN RatOfInt(value)
    ELSE IF ext = NegInf THEN ext
    ELSE IF value < ext[1] THEN RatOfInt(value) ELSE ext
PyMax(ext, value) ==
    IF ext = NegInf THEN RatOfInt(value)
    ELSE IF ext = PosInf THEN ext
    ELSE IF value > ext[1] THEN RatOfInt(value) ELSE ext

\* min(values), max(values), sum(values) over a non-empty Python list.
RECURSIVE ListMin(_)
ListMin(values) ==
    IF Len(values) = 1 THEN values[1]
    ELSE LET m == ListMin(Tail(values))
         IN  IF values[1] <= m THEN values[1] ELSE m

RECURSIVE ListMax(_)
ListMax(values) ==
    IF Len(values) = 1 THEN values[1]
    ELSE LET m == ListMax(Tail(values))
         IN  IF values[1] >= m THEN values[1] ELSE m

RECURSIVE ListSum(_)
ListSum(values) ==
    IF values = <<>> THEN 0 ELSE values[1] + ListSum(Tail(values))

\* sum((x - avg_value) ** 2 for x in values)
RECURSIVE SumSqDev(_, _)
SumSqDev(values, avg_value) ==
    IF values = <<>> THEN RatOfInt(0)
    ELSE LET d == RatSub(RatOfInt(values[1]), avg_value)
         IN  RatAdd(RatMul(d, d), SumSqDev(Tail(values), avg_value))

(***************************************************************************)
(* Node and AVLTree (src/data_structures/avl.py).  A tree reference is     *)
(* None or <<node>>, a node being a record.                                *)
(***************************************************************************)
Node(value) ==
    Some([value |-> value, left |-> None, right |-> None, height |-> 1, count |-> 1])

_get_height(node) == IF node = None THEN 0 ELSE node[1].height

_get_balance(node) ==
    IF node = None THEN 0
    ELSE _get_height(node[1].left) - _get_height(node[1].right)

\* Mutant of _left_rotate: z.right = T2 is left out, z keeps y as its right
\* child.
_left_rotate_keep(z) ==
    LET y  == z[1].right
        z1 == z[1]
        z2 == [z1 EXCEPT !.height = 1 + Max2(_get_height(z1.left), _get_height(z1.right))]
        y1 == [y[1] EXCEPT !.left = Some(z2)]
        y2 == [y1 EXCEPT !.height = 1 + Max2(_get_height(y1.left), _get_height(y1.right))]
    IN  Some(y2)

_left_rotate(z) ==
    LET y  == z[1].right
        T2 == y[1].left
        z1 == [z[1] EXCEPT !.right = T2]
        z2 == [z1 EXCEPT !.height = 1 + Max2(_get_height(z1.left), _get_height(z1.right))]
        y1 == [y[1] EXCEPT !.left = Some(z2)]
        y2 == [y1 EXCEPT !.height = 1 + Max2(_get_height(y1.left), _get_height(y1.right))]
    IN  Some(y2)

\* Mutant of _right_rotate: the height of y is updated before the height of
\* z, from the height z had above the rotation.
_right_rotate_order(z) ==
    LET y  == z[1].left
        T3 == y[1].right
        z1 == [z[1] EXCEPT !.left = T3]
        z2 == [z1 EXCEPT !.height = 1 + Max2(_get_height(z1.left), _get_height(z1.right))]
        y1 == [y[1] EXCEPT !.right = Some(z2)]
        y2 == [y1 EXCEPT !.height = 1 + Max2(_get_height(y1.left), z[1].height)]
    IN  Some(y2)

_right_rotate(z) ==
    LET y  == z[1].left
        T3 == y[1].right
        z1 == [z[1] EXCEPT !.left = T3]
        z2 == [z1 EXCEPT !.height = 1 + Max2(_get_height(z1.left), _get_height(z1.right))]
        y1 == [y[1] EXCEPT !.right = Some(z2)]
        y2 == [y1 EXCEPT !.height = 1 + Max2(_get_height(y1.left), _get_height(y1.right))]
    IN  Some(y2)

\* Mutant of _insert_rebalance: the inserted value is not compared with the
\* key of the child, every imbalance is answered by a single rotation.
_insert_rebalance_single(n, value) ==
    LET n1 == [n EXCEPT !.height = 1 + Max2(_get_height(n.left), _get_height(n.right))]
        balance == _get_balance(Some(n1))
    IN  IF balance > 1 THEN _right_rotate(Some(n1))
        ELSE IF balance < -1 THEN _left_rotate(Some(n1))
        ELSE Some(n1)

\* Lines 88-105 of _insert: the height update and rebalancing of a node one
\* of whose subtrees has just been inserted into.
_insert_rebalance(n, value) ==
    LET n1 == [n EXCEPT !.height = 1 + Max2(_get_height(n.left), _get_height(n.right))]
        balance == _get_balance(Some(n1))
    IN  IF balance > 1 THEN
            IF value < n1.left[1].value
            THEN _right_rotate(Some(n1))
            ELSE _right_rotate(Some([n1 EXCEPT !.left = _left_rotate(n1.left)]))
        ELSE IF balance < -1 THEN
            IF value > n1.right[1].value
            THEN _left_rotate(Some(n1))
            ELSE _left_rotate(Some([n1 EXCEPT !.right = _right_rotate(n1.right)]))
        ELSE Some(n1)

\* Mutant of _insert: a value equal to the key of a node goes to the right
\* subtree, where it gets a node of its own.
RECURSIVE _insert_equal_right(_, _)
_insert_equal_right(node, value) ==
    IF node = None THEN Node(value)
    ELSE IF value < node[1].value THEN
        _insert_rebalance([node[1] EXCEPT !.left = _insert_equal_right(node[1].left, value)],
                          value)
    ELSE
        _insert_rebalance([node[1] EXCEPT !.right = _insert_equal_right(node[1].right, value)],
                          value)

\* Mutant of _insert: the first comparison is <=, a value equal to the key of
\* a node goes to the left subtree, where it gets a node of its own.
RECURSIVE _insert_equal_left(_, _)
_insert_equal_left(node, value) ==
    IF node = None THEN Node(value)
    ELSE IF value <= node[1].value THEN
        _insert_rebalance([node[1] EXCEPT !.left = _insert_equal_left(node[1].left, value)],
                          value)
    ELSE
        _insert_rebalance([node[1] EXCEPT !.right = _insert_equal_left(node[1].right, value)],
                          value)

RECURSIVE _insert(_, _)
_insert(node, value) ==
    IF node = None THEN Node(value)
    ELSE IF value < node[1].value THEN
        _insert_rebalance([node[1] EXCEPT !.left = _insert(node[1].left, value)], value)
    ELSE IF value > node[1].value THEN
        _insert_rebalance([node[1] EXCEPT !.right = _insert(node[1].right, value)], value)
    ELSE Some([node[1] EXCEPT !.count = @ + 1])

\* Mutant of Repeat: the traversal emits each key once, whatever its count.
RepeatOnce(value, count) == <<value>>

\* [node.value] * node.count
RECURSIVE Repeat(_, _)
Repeat(value, count) ==
    IF count = 0 THEN <<>> ELSE <<value>> \o Repeat(value, count - 1)

\* Mutant of _inorder_traversal: the node is visited before its left subtree.
RECURSIVE _preorder_traversal(_)
_preorder_traversal(node) ==
    IF node = None THEN <<>>
    ELSE Repeat(node[1].value, node[1].count)
         \o _preorder_traversal(node[1].left)
         \o _preorder_traversal(node[1].right)

RECURSIVE _inorder_traversal(_)
_inorder_traversal(node) ==
    IF node = None THEN <<>>
    ELSE _inorder_traversal(node[1].left)
         \o Repeat(node[1].value, node[1].count)
         \o _inorder_traversal(node[1].right)

\* AVLTree.__init__
AVLTree ==
    [root |-> None,
     last_inserted_value |-> None,
     min_value |-> PosInf,
     max_value |-> NegInf,
     sum_values |-> 0,
     count_values |-> 0,
     mean_value |-> RatOfInt(0),
     sum_of_squares |-> RatOfInt(0),
     total_size |-> 0,
     insertion_order |-> <<>>,
     _stats_cache |-> None,
     _cache_last_n |-> None]

\* AVLTree.insert, lines 46-47: the tree insertion and the last value.
insert_tree(self, value) ==
    [self EXCEPT !.root = _insert(self.root, value),
                 !.last_inserted_value = Some(value)]

\* AVLTree.insert, line 48: the insertion log.
insert_log(self, value) ==
    [self EXCEPT !.insertion_order = Append(self.insertion_order, value)]

\* Mutant of insert_stats: count_values counts the nodes of the tree, as its
\* comment in __init__ says: a value that the log (which holds the new value
\* already) had before is not counted again.
insert_stats_nodes(self, value) ==
    LET seen == Cardinality({i \in DOMAIN self.insertion_order :
                                self.insertion_order[i] = value}) > 1
        count_values == IF seen /\ self.count_values > 0
                        THEN self.count_values ELSE self.count_values + 1
        sum_values == self.sum_values + value
        old_mean == self.mean_value
        mean_value == Rat(sum_values, count_values)
    IN  [self EXCEPT
            !.min_value = PyMin(self.min_value, value),
            !.max_value = PyMax(self.max_value, value),
            !.count_values = count_values,
            !.sum_values = sum_values,
            !.total_size = self.total_size + 1,
            !.mean_value = mean_value,
            !.sum_of_squares =
                IF count_values > 1
                THEN RatAdd(self.sum_of_squares,
                            RatMul(RatSub(RatOfInt(value), old_mean),
                                   RatSub(RatOfInt(value), mean_value)))
                ELSE self.sum_of_squares]

\* AVLTree.insert, lines 50-63: the running aggregates.
insert_stats(self, value) ==
    LET count_values == self.count_values + 1
        sum_values == self.sum_values + value
        old_mean == self.mean_value
        mean_value == Rat(sum_values, count_values)
    IN  [self EXCEPT
            !.min_value = PyMin(self.min_value, value),
            !.max_value = PyMax(self.max_value, value),
            !.count_values = count_values,
            !.sum_values = sum_values,
            !.total_size = self.total_size + 1,
            !.mean_value = mean_value,
            !.sum_of_squares =
                IF count_values > 1
                THEN RatAdd(self.sum_of_squares,
                            RatMul(RatSub(RatOfInt(value), old_mean),
                                   RatSub(RatOfInt(value), mean_value)))
                ELSE self.sum_of_squares]

\* Mutant of insert_invalidate: the cache survives an insert.
insert_invalidate_skip(self) == self

\* AVLTree.insert, lines 65-67: the cache invalidation.
insert_invalidate(self) ==
    [self EXCEPT !._stats_cache = None, !._cache_last_n = None]

\* AVLTree.insert
insert(self, value) ==
    insert_invalidate(insert_stats(insert_log(insert_tree(self, value), value), value))

\* 10 ** k: an int for k >= 0 and the float 10^k for k < 0, both as fractions.
Pow10(k) == IF k >= 0 THEN <<10 ^ k, 1>> ELSE <<1, 10 ^ (-k)>>

\* A slice index must be an integer: values[-last_n:] raises TypeError otherwise.
IsIntegral(q) == q[2] = 1

\* Mutant of LastValues: the window is ignored and every value is taken.
LastValuesAll(insertion_order, last_n) == insertion_order

\* list(self.insertion_order)[-last_n:] if last_n else list(self.insertion_order)
\* for last_n None or an integral number <<q>>.
LastValues(insertion_order, last_n) ==
    IF last_n = None \/ last_n = Some(RatOfInt(0)) THEN insertion_order
    ELSE LET len == Len(insertion_order)
             start == Max2(len - last_n[1][1], 0)
         IN  SubSeq(insertion_order, start + 1, len)

\* Mutant of ComputeStats: the variance is the sample variance, the sum of
\* squared deviations divided by len(values) - 1.
ComputeStatsSample(values) ==
    LET avg_value == Rat(ListSum(values), Len(values))
    IN  [min |-> Some(ListMin(values)),
         max |-> Some(ListMax(values)),
         last |-> Some(values[Len(values)]),
         avg |-> Some(avg_value),
         var |-> IF Len(values) > 1
                 THEN Some(RatDivInt(SumSqDev(values, avg_value), Len(values) - 1))
                 ELSE Some(RatOfInt(0)),
         size |-> Some(Len(values))]

\* Lines 184-198 of get_stats: the statistics of a non-empty list of values.
ComputeStats(values) ==
    LET avg_value == Rat(ListSum(values), Len(values))
    IN  [min |-> Some(ListMin(values)),
         max |-> Some(ListMax(values)),
         last |-> Some(values[Len(values)]),
         avg |-> Some(avg_value),
         var |-> IF Len(values) > 1
                 THEN Some(RatDivInt(SumSqDev(values, avg_value), Len(values)))
                 ELSE Some(RatOfInt(0)),
         size |-> Some(Len(values))]

EmptyStats ==
    [min |-> None, max |-> None, last |-> None, avg |-> None, var |-> None, size |-> None]

\* Mutant of get_stats: the cache is filled with the statistics of the whole
\* log instead of those of the window returned.
get_stats_cache_all(self, last_n) ==
    IF self.count_values = 0
    THEN [self |-> self, stats |-> EmptyStats, exc |-> ""]
    ELSE IF self._stats_cache # None /\ self._cache_last_n = last_n
    THEN [self |-> self, stats |-> self._stats_cache[1], exc |-> ""]
    ELSE IF last_n # None /\ ~IsIntegral(last_n[1])
    THEN [self |-> self, stats |-> EmptyStats, exc |-> "TypeError"]
    ELSE [self |-> [self EXCEPT !._stats_cache = Some(ComputeStats(self.insertion_order)),
                                !._cache_last_n = last_n],
          stats |-> ComputeStats(LastValues(self.insertion_order, last_n)),
          exc |-> ""]

\* Mutant of get_stats: a query that computes trims the log to the window it
\* has just read.
get_stats_trim(self, last_n) ==
    IF self.count_values = 0
    THEN [self |-> self, stats |-> EmptyStats, exc |-> ""]
    ELSE IF self._stats_cache # None /\ self._cache_last_n = last_n
    THEN [self |-> self, stats |-> self._stats_cache[1], exc |-> ""]
    ELSE IF last_n # None /\ ~IsIntegral(last_n[1])
    THEN [self |-> self, stats |-> EmptyStats, exc |-> "TypeError"]
    ELSE LET stats == ComputeStats(LastValues(self.insertion_order, last_n))
         IN  [self |-> [self EXCEPT !._stats_cache = Some(stats),
                                    !._cache_last_n = last_n,
                                    !.insertion_order = LastValues(@, last_n)],
              stats |-> stats,
              exc |-> ""]

\* Mutant of get_stats: an unwindowed query takes whatever the cache holds,
\* without comparing the window it was filled for.
get_stats_any_cache(self, last_n) ==
    IF self.count_values = 0
    THEN [self |-> self, stats |-> EmptyStats, exc |-> ""]
    ELSE IF self._stats_cache # None /\ (last_n = None \/ self._cache_last_n = last_n)
    THEN [self |-> self, stats |-> self._stats_cache[1], exc |-> ""]
    ELSE IF last_n # None /\ ~IsIntegral(last_n[1])
    THEN [self |-> self, stats |-> EmptyStats, exc |-> "TypeError"]
    ELSE LET stats == ComputeStats(LastValues(self.insertion_order, last_n))
         IN  [self |-> [self EXCEPT !._stats_cache = Some(stats),
                                    !._cache_last_n = last_n],
              stats |-> stats,
              exc |-> ""]

\* Mutant of get_stats: a result computed while the cache is filled is
\* returned without being stored, the first entry stays.
get_stats_keep_first(self, last_n) ==
    IF self.count_values = 0
    THEN [self |-> self, stats |-> EmptyStats, exc |-> ""]
    ELSE IF self._stats_cache # None /\ self._cache_last_n = last_n
    THEN [self |-> self, stats |-> self._stats_cache[1], exc |-> ""]
    ELSE IF last_n # None /\ ~IsIntegral(last_n[1])
    THEN [self |-> self, stats |-> EmptyStats, exc |-> "TypeError"]
    ELSE LET stats == ComputeStats(LastValues(self.insertion_order, last_n))
         IN  [self |-> IF self._stats_cache # None THEN self
                       ELSE [self EXCEPT !._stats_cache = Some(stats),
                                         !._cache_last_n = last_n],
              stats |-> stats,
              exc |-> ""]

\* AVLTree.get_stats: the tree after the call (only the cache pair can change),
\* the dictionary returned and the exception raised ("" when none).  last_n is
\* None or <<q>> for a number q.
get_stats(self, last_n) ==
    IF self.count_values = 0
    THEN [self |-> self, stats |-> EmptyStats, exc |-> ""]
    ELSE IF self._stats_cache # None /\ self._cache_last_n = last_n
    THEN [self |-> self, stats |-> self._stats_cache[1], exc |-> ""]
    ELSE IF last_n # None /\ ~IsIntegral(last_n[1])
    THEN [self |-> self, stats |-> EmptyStats, exc |-> "TypeError"]
    ELSE LET stats == ComputeStats(LastValues(self.insertion_order, last_n))
         IN  [self |-> [self EXCEPT !._stats_cache = Some(stats),
                                    !._cache_last_n = last_n],
              stats |-> stats,
              exc |-> ""]

\* AVLTree.get_all_values
get_all_values(self) == _inorder_traversal(self.root)

(***************************************************************************)
(* Database (src/config/db.py).  data_store is the dictionary from symbol  *)
(* to AVLTree; resp records the outcome of the last call: the exception    *)
(* raised (exc, "" when the call returned) with its message, or the value  *)
(* returned.  inserted is a history variable: for every symbol of the      *)
(* catalog, the values of the accepted batches since the symbol was        *)
(* created, in arrival order.  running holds the AVLTree calls in progress  *)
(* when the statements of two calls interleave (SpecSteps); the calls of   *)
(* Database run one at a time and leave it unchanged.                      *)
(***************************************************************************)
EmptyStore == [s \in {} |-> AVLTree]

Response(op, symbol, k, exc, detail, stats, values, symbols) ==
    [op |-> op, symbol |-> symbol, k |-> k, exc |-> exc, detail |-> detail,
     stats |-> stats, values |-> values, symbols |-> symbols]

Raise(op, symbol, k, exc, detail) ==
    Response(op, symbol, k, exc, detail, EmptyStats, <<>>, {})

\* Mutant of ValidateValues: the comparison follows the wording of the
\* message, a zero is rejected as well.
RECURSIVE ValidateValuesPositive(_)
ValidateValuesPositive(values) ==
    IF values = <<>> THEN ""
    ELSE IF ~IsNumber(values[1]) THEN "All values must be valid numbers."
    ELSE IF values[1].val <= 0 THEN "All values must be greater than 0."
    ELSE ValidateValuesPositive(Tail(values))

\* The validation loop of add_batch (lines 56-60): the message of the first
\* value that is rejected, "" when every value passes.
RECURSIVE ValidateValues(_)
ValidateValues(values) ==
    IF values = <<>> THEN ""
    ELSE IF ~IsNumber(values[1]) THEN "All values must be valid numbers."
    ELSE IF values[1].val < 0 THEN "All values must be greater than 0."
    ELSE ValidateValues(Tail(values))

\* Mutant of AddBatchError: the symbol limit is checked with > instead of >=.
AddBatchErrorOffByOne(store, symbol, values) ==
    IF Len(symbol) > MAX_SYMBOLS_LENGTH
    THEN "Symbol length must not exceed 4 characters."
    ELSE IF Cardinality(DOMAIN store) > MAX_SYMBOLS_COUNT /\ symbol \notin DOMAIN store
    THEN "Symbols limit reached (10)."
    ELSE IF Len(values) = 0
    THEN "The list of trading values must contain at least 1 item."
    ELSE IF Len(values) > MAX_TRADE_POINTS_COUNT
    THEN "The list should have at most 10000 items, not " \o ToString(Len(values)) \o "."
    ELSE ValidateValues(values)

\* Mutant of AddBatchError: the check for an empty list is left out.
AddBatchErrorAllowEmpty(store, symbol, values) ==
    IF Len(symbol) > MAX_SYMBOLS_LENGTH
    THEN "Symbol length must not exceed 4 characters."
    ELSE IF Cardinality(DOMAIN store) >= MAX_SYMBOLS_COUNT /\ symbol \notin DOMAIN store
    THEN "Symbols limit reached (10)."
    ELSE IF Len(values) > MAX_TRADE_POINTS_COUNT
    THEN "The list should have at most 10000 items, not " \o ToString(Len(values)) \o "."
    ELSE ValidateValues(values)

\* The checks of add_batch (lines 41-60) in order: the message of the
\* ValueError raised, "" when the batch is accepted.
AddBatchError(store, symbol, values) ==
    IF Len(symbol) > MAX_SYMBOLS_LENGTH
    THEN "Symbol length must not exceed 4 characters."
    ELSE IF Cardinality(DOMAIN store) >= MAX_SYMBOLS_COUNT /\ symbol \notin DOMAIN store
    THEN "Symbols limit reached (10)."
    ELSE IF Len(values) = 0
    THEN "The list of trading values must contain at least 1 item."
    ELSE IF Len(values) > MAX_TRADE_POINTS_COUNT
    THEN "The list should have at most 10000 items, not " \o ToString(Len(values)) \o "."
    ELSE ValidateValues(values)

\* for value in values: bst.insert(value)
RECURSIVE InsertAll(_, _)
InsertAll(bst, values) ==
    IF values = <<>> THEN bst
    ELSE InsertAll(insert(bst, values[1].val), Tail(values))

RECURSIVE NumbersOf(_)
NumbersOf(values) ==
    IF values = <<>> THEN <<>> ELSE <<values[1].val>> \o NumbersOf(Tail(values))

\* Mutant of StoreBatch: every accepted batch starts a new tree for its
\* symbol, the values of earlier batches are dropped.
StoreBatchFresh(store, symbol, values) ==
    [s \in DOMAIN store \cup {symbol} |->
        IF s = symbol THEN InsertAll(AVLTree, values) ELSE store[s]]

\* Mutant of StoreBatch: the cache is shared by the trees (a class attribute),
\* an insert into one tree invalidates the cache of every tree.
StoreBatchSharedCache(store, symbol, values) ==
    LET bst == IF symbol \in DOMAIN store THEN store[symbol] ELSE AVLTree
    IN  [s \in DOMAIN store \cup {symbol} |->
            IF s = symbol THEN InsertAll(bst, values) ELSE insert_invalidate(store[s])]

\* Lines 62-68 of add_batch: the store after an accepted batch.
StoreBatch(store, symbol, values) ==
    LET bst == IF symbol \in DOMAIN store THEN store[symbol] ELSE AVLTree
    IN  [s \in DOMAIN store \cup {symbol} |->
            IF s = symbol THEN InsertAll(bst, values) ELSE store[s]]

\* Mutant of AddBatchStore: the values are validated while they are inserted,
\* so the values before the first invalid one reach the tree.
RECURSIVE ValidPrefix(_)
ValidPrefix(values) ==
    IF values = <<>> \/ ~IsNumber(values[1]) \/ values[1].val < 0 THEN <<>>
    ELSE <<values[1]>> \o ValidPrefix(Tail(values))

AddBatchStorePartial(store, symbol, values) ==
    LET error == AddBatchError(store, symbol, values)
    IN  IF error # ""
           /\ (Len(values) > MAX_TRADE_POINTS_COUNT \/ error # ValidateValues(values))
        THEN store
        ELSE StoreBatch(store, symbol, ValidPrefix(values))

\* Mutant of AddBatchStore: the tree of a new symbol is created before the
\* checks, so a rejected batch leaves an empty tree behind.
AddBatchStoreCreateFirst(store, symbol, values) ==
    IF AddBatchError(store, symbol, values) # ""
    THEN [s \in DOMAIN store \cup {symbol} |->
             IF s \in DOMAIN store THEN store[s] ELSE AVLTree]
    ELSE StoreBatch(store, symbol, values)

\* Database.add_batch: the store the call leaves behind, whether it raises
\* (every check precedes the first insertion) or returns.
AddBatchStore(store, symbol, values) ==
    IF AddBatchError(store, symbol, values) # "" THEN store
    ELSE StoreBatch(store, symbol, values)

Database_add_batch(symbol, values) ==
    LET error == AddBatchError(data_store, symbol, values)
    IN  /\ data_store' = AddBatchStore(data_store, symbol, values)
        /\ inserted' =
              IF error # "" THEN inserted
              ELSE [s \in DOMAIN inserted \cup {symbol} |->
                      IF s = symbol
                      THEN (IF symbol \in DOMAIN inserted THEN inserted[symbol] ELSE <<>>)
                           \o NumbersOf(values)
                      ELSE inserted[s]]
        /\ resp' =
              IF error # "" THEN Raise("add_batch", symbol, 0, "ValueError", error)
              ELSE Response("add_batch", symbol, 0, "", "Batch added successfully",
                            EmptyStats, <<>>, {})
        /\ UNCHANGED running

\* The guard of Database.get_stats on the exponent (line 81).
ExponentRejected(k) == k > MAX_K_VALUE

\* The message of the ValueError raised for a rejected exponent (line 82).
ExponentErrorMessage == "Symbol not found"

\* Lines 87-96 of Database.get_stats: the six calls of bst.get_stats(last_n),
\* one per key of the dictionary returned, in order.
SixStats(bst, last_n) ==
    LET r1 == get_stats(bst, last_n)
        r2 == get_stats(r1.self, last_n)
        r3 == get_stats(r2.self, last_n)
        r4 == get_stats(r3.self, last_n)
        r5 == get_stats(r4.self, last_n)
        r6 == get_stats(r5.self, last_n)
    IN  IF r1.exc # "" THEN [self |-> r1.self, stats |-> EmptyStats, exc |-> r1.exc]
        ELSE [self |-> r6.self,
              stats |-> [min |-> r1.stats.min, max |-> r2.stats.max,
                         last |-> r3.stats.last, avg |-> r4.stats.avg,
                         var |-> r5.stats.var, size |-> r6.stats.size],
              exc |-> ""]

Database_get_stats(symbol, k) ==
    IF ExponentRejected(k)
    THEN /\ resp' = Raise("get_stats", symbol, k, "ValueError", ExponentErrorMessage)
         /\ UNCHANGED <<data_store, inserted, running>>
    ELSE IF symbol \notin DOMAIN data_store
    THEN /\ resp' = Raise("get_stats", symbol, k, "ValueError", "Symbol not found")
         /\ UNCHANGED <<data_store, inserted, running>>
    ELSE LET r == SixStats(data_store[symbol], Some(Pow10(k)))
         IN  /\ data_store' = [data_store EXCEPT ![symbol] = r.self]
             /\ resp' = IF r.exc # ""
                        THEN Raise("get_stats", symbol, k, r.exc,
                                   "slice indices must be integers")
                        ELSE Response("get_stats", symbol, k, "", "", r.stats, <<>>, {})
             /\ UNCHANGED <<inserted, running>>

\* Mutant of Database_get_values: the store behaves as a defaultdict, a query
\* of an unknown symbol creates its tree.
Database_get_values_default(symbol) ==
    /\ data_store' = [s \in DOMAIN data_store \cup {symbol} |->
                        IF s \in DOMAIN data_store THEN data_store[s] ELSE AVLTree]
    /\ resp' = Response("get_values", symbol, 0, "", "", EmptyStats,
                        get_all_values(data_store'[symbol]), {})
    /\ UNCHANGED <<inserted, running>>

Database_get_values(symbol) ==
    /\ resp' = IF symbol \notin DOMAIN data_store
               THEN Raise("get_values", symbol, 0, "ValueError", "Symbol not found")
               ELSE Response("get_values", symbol, 0, "", "", EmptyStats,
                             get_all_values(data_store[symbol]), {})
    /\ UNCHANGED <<data_store, inserted, running>>

\* The list of keys is modelled as the set of keys.
Database_get_symbols ==
    /\ resp' = Response("get_symbols", "", 0, "", "", EmptyStats, <<>>, DOMAIN data_store)
    /\ UNCHANGED <<data_store, inserted, running>>

\* Mutant of Database_clear: the dictionary is rebound in a local name, the
\* store of the singleton keeps its trees.
Database_clear_local ==
    /\ resp' = Response("clear", "", 0, "", "", EmptyStats, <<>>, {})
    /\ UNCHANGED <<data_store, inserted, running>>

Database_clear ==
    /\ data_store' = EmptyStore
    /\ inserted' = [s \in {} |-> <<>>]
    /\ resp' = Response("clear", "", 0, "", "", EmptyStats, <<>>, {})
    /\ UNCHANGED running

\* Mutant of Database_delete_symbol: the symbol's tree is reset to an empty
\* tree instead of being removed.
Database_delete_symbol_reset(symbol) ==
    IF symbol \in DOMAIN data_store
    THEN /\ data_store' = [data_store EXCEPT ![symbol] = AVLTree]
         /\ inserted' = [s \in DOMAIN inserted \ {symbol} |-> inserted[s]]
         /\ resp' = Response("delete_symbol", symbol, 0, "",
                             "Symbol " \o symbol \o " deleted successfully",
                             EmptyStats, <<>>, {})
         /\ UNCHANGED running
    ELSE /\ resp' = Raise("delete_symbol", symbol, 0, "ValueError",
                          "Symbol " \o symbol \o " not found")
         /\ UNCHANGED <<data_store, inserted, running>>

Database_delete_symbol(symbol) ==
    IF symbol \in DOMAIN data_store
    THEN /\ data_store' = [s \in DOMAIN data_store \ {symbol} |-> data_store[s]]
         /\ inserted' = [s \in DOMAIN inserted \ {symbol} |-> inserted[s]]
         /\ resp' = Response("delete_symbol", symbol, 0, "",
                             "Symbol " \o symbol \o " deleted successfully",
                             EmptyStats, <<>>, {})
         /\ UNCHANGED running
    ELSE /\ resp' = Raise("delete_symbol", symbol, 0, "ValueError",
                          "Symbol " \o symbol \o " not found")
         /\ UNCHANGED <<data_store, inserted, running>>

(***************************************************************************)
(* Inputs and specifications.                                              *)
(***************************************************************************)
\* Longest insertion log a symbol grows to, and longest accepted batch.
MaxLog == 2
MaxBatch == 2

Symbols == {"A", "B", "ABCDE"}
Prices == {0, 1}
Exponents == {-1, 0, 8, 9}

\* All lists of 1 to n prices.
PriceLists(n) == UNION {[1..m -> {PyNumber(x) : x \in Prices}] : m \in 1..n}

\* Batches the validation rejects: an empty list, an oversized list, a string
\* before and after a number, a negative number before and after a valid one.
BadBatches ==
    << <<>>,
       [i \in 1..(MAX_TRADE_POINTS_COUNT + 1) |-> PyNumber(1)],
       <<PyString, PyNumber(1)>>,
       <<PyNumber(1), PyString>>,
       <<PyNumber(-1), PyNumber(1)>>,
       <<PyNumber(1), PyNumber(-1)>> >>

\* A batch rejected for a negative value that follows a zero.
NegativeBatch == <<PyNumber(0), PyNumber(-1)>>

\* The log of symbol stays within limit when values are added.
Fits(symbol, values, limit) ==
    (IF symbol \in DOMAIN data_store
     THEN Len(data_store[symbol].insertion_order) ELSE 0) + Len(values) <= limit

NoResponse == Response("", "", 0, "", "", EmptyStats, <<>>, {})

\* No call of an AVLTree method is in progress: every call runs from its
\* first statement to its return before the next one starts, as the calls
\* made by the endpoints do (coroutines that never await).
Idle == [pc |-> "idle", value |-> 0, last_n |-> None, values |-> <<>>]
NoCalls == [atomic |-> TRUE, writer |-> Idle, reader |-> Idle]

Init ==
    /\ data_store = EmptyStore
    /\ inserted = [s \in {} |-> <<>>]
    /\ resp = NoResponse
    /\ running = NoCalls

Next ==
    \/ \E symbol \in Symbols, values \in PriceLists(MaxBatch) :
          Fits(symbol, values, MaxLog) /\ Database_add_batch(symbol, values)
    \/ \E symbol \in Symbols : Database_add_batch(symbol, NegativeBatch)
    \/ \E symbol \in Symbols, k \in Exponents : Database_get_stats(symbol, k)
    \/ \E symbol \in Symbols : Database_get_values(symbol)
    \/ Database_get_symbols
    \/ Database_clear
    \/ \E symbol \in Symbols : Database_delete_symbol(symbol)

Spec == Init /\ [][Next]_vars

(***************************************************************************)
(* SpecWindow: one symbol whose log grows past the shortest window (10     *)
(* values, k = 1), queried with the smallest and the largest exponent.     *)
(***************************************************************************)
MaxWindowLog == 11

WindowSymbol == "A"
WindowBatches == {<<PyNumber(x)>> : x \in {1, 2}}
WindowExponents == {1, MAX_K_VALUE}

NextWindow ==
    \/ \E values \in WindowBatches :
          Fits(WindowSymbol, values, MaxWindowLog)
          /\ Database_add_batch(WindowSymbol, values)
    \/ \E k \in WindowExponents : Database_get_stats(WindowSymbol, k)
    \/ Database_delete_symbol(WindowSymbol)

SpecWindow == Init /\ [][NextWindow]_vars

(***************************************************************************)
(* SpecTree: one symbol with enough distinct prices for the tree to take   *)
(* every shape, rotations included.                                        *)
(***************************************************************************)
MaxKey == 5
MaxTreeLog == 5

TreeSymbol == "A"
TreeBatches == {<<PyNumber(x)>> : x \in 1..MaxKey}

NextTree ==
    \/ \E values \in TreeBatches :
          Fits(TreeSymbol, values, MaxTreeLog) /\ Database_add_batch(TreeSymbol, values)
    \/ Database_get_values(TreeSymbol)

SpecTree == Init /\ [][NextTree]_vars

(***************************************************************************)
(* SpecLimit: the catalog next to its limit of MAX_SYMBOLS_COUNT symbols,  *)
(* with every kind of batch that add_batch rejects.  It starts from the    *)
(* state the calls add_batch(s, [1]) for nine symbols leave behind; three  *)
(* further symbols are added, extended, queried and deleted.               *)
(***************************************************************************)
MaxLimitLog == 2

Preloaded == <<"S1", "S2", "S3", "S4", "S5", "S6", "S7", "S8", "S9">>
LimitSymbols == {"S9", "S10", "S11"}
LimitBatch == <<PyNumber(1)>>

RECURSIVE Preload(_, _)
Preload(store, symbols) ==
    IF symbols = <<>> THEN store
    ELSE Preload(StoreBatch(store, symbols[1], LimitBatch), Tail(symbols))

InitLimit ==
    /\ data_store = Preload(EmptyStore, Preloaded)
    /\ inserted = [s \in {Preloaded[i] : i \in DOMAIN Preloaded} |-> NumbersOf(LimitBatch)]
    /\ resp = NoResponse
    /\ running = NoCalls

NextLimit ==
    \/ \E symbol \in LimitSymbols \cup {"ABCDE"} :
          Fits(symbol, LimitBatch, MaxLimitLog) /\ Database_add_batch(symbol, LimitBatch)
    \/ \E symbol \in LimitSymbols, i \in DOMAIN BadBatches :
          Database_add_batch(symbol, BadBatches[i])
    \/ \E symbol \in LimitSymbols : Database_delete_symbol(symbol)
    \/ Database_get_symbols
    \/ Database_clear
    \/ \E symbol \in LimitSymbols : Database_get_values(symbol)
    \/ \E symbol \in LimitSymbols : Database_get_stats(symbol, 1)

SpecLimit == InitLimit /\ [][NextLimit]_vars

(***************************************************************************)
(* SpecChunks: one symbol that receives the list 150.1, 152.3, 151.0,      *)
(* 155.4, 149.8 in order, cut into chunks of up to MaxChunk values, and is *)
(* queried with every exponent from 1 to MAX_K_VALUE.  Prices are          *)
(* fixed-point numbers, in tenths.                                         *)
(***************************************************************************)
MaxChunk == 3

ExampleSymbol == "AAPL"
ExampleValues == <<1501, 1523, 1510, 1554, 1498>>
ExampleExponents == 1..MAX_K_VALUE

\* The chunk of len values that follows the first done values of the list.
Chunk(done, len) == [i \in 1..len |-> PyNumber(ExampleValues[done + i])]

\* One iteration of the sender's loop: the next chunk of the list is added.
SendChunk(len) ==
    LET done == IF ExampleSymbol \in DOMAIN data_store
                THEN Len(data_store[ExampleSymbol].insertion_order) ELSE 0
    IN  /\ done + len <= Len(ExampleValues)
        /\ Database_add_batch(ExampleSymbol, Chunk(done, len))

NextChunks ==
    \/ \E len \in 1..MaxChunk : SendChunk(len)
    \/ \E k \in ExampleExponents : Database_get_stats(ExampleSymbol, k)
    \/ Database_get_values(ExampleSymbol)
    \/ Database_get_symbols
    \/ Database_delete_symbol(ExampleSymbol)
    \/ Database_clear

SpecChunks == Init /\ [][NextChunks]_vars

(***************************************************************************)
(* SpecAVL: one AVLTree used directly, as a caller of the class does:      *)
(* insert, get_stats without a window and with a window of any length,     *)
(* get_all_values.  The tree is kept in data_store under AVLName; in resp   *)
(* the field k holds last_n, 0 standing for None.                          *)
(***************************************************************************)
MaxAVLLog == 3

AVLName == "T"
AVLValues == {1, 2, 4}
AVLWindows == {None, Some(RatOfInt(2)), Some(RatOfInt(MaxAVLLog))}

InitAVL ==
    /\ data_store = [s \in {AVLName} |-> AVLTree]
    /\ inserted = [s \in {AVLName} |-> <<>>]
    /\ resp = NoResponse
    /\ running = NoCalls

AVLTree_insert(value) ==
    /\ Len(data_store[AVLName].insertion_order) < MaxAVLLog
    /\ data_store' = [data_store EXCEPT ![AVLName] = insert(@, value)]
    /\ inserted' = [inserted EXCEPT ![AVLName] = Append(@, value)]
    /\ resp' = Response("AVLTree.insert", AVLName, 0, "", "", EmptyStats, <<>>, {})
    /\ UNCHANGED running

AVLTree_get_stats(last_n) ==
    LET r == get_stats(data_store[AVLName], last_n)
    IN  /\ data_store' = [data_store EXCEPT ![AVLName] = r.self]
        /\ resp' = Response("AVLTree.get_stats", AVLName,
                            IF last_n = None THEN 0 ELSE last_n[1][1],
                            r.exc, "", r.stats, <<>>, {})
        /\ UNCHANGED <<inserted, running>>

AVLTree_get_all_values ==
    /\ resp' = Response("AVLTree.get_all_values", AVLName, 0, "", "", EmptyStats,
                        get_all_values(data_store[AVLName]), {})
    /\ UNCHANGED <<data_store, inserted, running>>

NextAVL ==
    \/ \E value \in AVLValues : AVLTree_insert(value)
    \/ \E last_n \in AVLWindows : AVLTree_get_stats(last_n)
    \/ AVLTree_get_all_values

SpecAVL == InitAVL /\ [][NextAVL]_vars

(***************************************************************************)
(* SpecSteps: one AVLTree with a writer that executes insert and a reader  *)
(* that executes get_stats statement group by statement group.  With       *)
(* running.atomic a call starts only when no other call is in progress, as *)
(* under the event loop of the endpoints; without it the statements of the *)
(* two calls interleave freely, as they do for two threads that share the  *)
(* tree without a lock.  The history inserted grows when an insert         *)
(* returns.  In resp, for get_stats, k holds last_n (0 for None), detail   *)
(* tells the return statement taken ("empty", "cached", "computed") and    *)
(* values records the insertion log at the moment of the return.           *)
(***************************************************************************)
MaxStepLog == 2

StepValues == {1, 2}
StepWindows == {None, Some(RatOfInt(2))}

InitSteps ==
    /\ data_store = [s \in {AVLName} |-> AVLTree]
    /\ inserted = [s \in {AVLName} |-> <<>>]
    /\ resp = NoResponse
    /\ running \in {[NoCalls EXCEPT !.atomic = a] : a \in BOOLEAN}

\* The statement groups of AVLTree.insert: the effect of the group at pc.
insert_step(self, value, pc) ==
    CASE pc = "tree" -> insert_tree(self, value)
      [] pc = "log" -> insert_log(self, value)
      [] pc = "stats" -> insert_stats(self, value)
      [] pc = "invalidate" -> insert_invalidate(self)

\* Mutant of insert_next: the running aggregates are updated before the value
\* is appended to the log.
insert_next_stats_first(pc) ==
    CASE pc = "tree" -> "stats"
      [] pc = "stats" -> "log"
      [] pc = "log" -> "invalidate"
      [] pc = "invalidate" -> "idle"

\* The statement group of AVLTree.insert that follows the group at pc, in the
\* order of the source: lines 46-47, 48, 50-63, 65-67, return.
insert_next(pc) ==
    CASE pc = "tree" -> "log"
      [] pc = "log" -> "stats"
      [] pc = "stats" -> "invalidate"
      [] pc = "invalidate" -> "idle"

\* Mutant of AVLTree_insert_call: the writer does not wait for a call of the
\* reader in progress, whatever running.atomic says.
AVLTree_insert_call_unguarded(value) ==
    /\ running.writer.pc = "idle"
    /\ Len(data_store[AVLName].insertion_order) < MaxStepLog
    /\ data_store' = [data_store EXCEPT ![AVLName] = insert_step(@, value, "tree")]
    /\ running' = [running EXCEPT !.writer =
                      [Idle EXCEPT !.pc = insert_next("tree"), !.value = value]]
    /\ UNCHANGED <<inserted, resp>>

\* The writer calls insert(value) and executes its first statement group.
AVLTree_insert_call(value) ==
    /\ running.writer.pc = "idle"
    /\ running.atomic => running.reader.pc = "idle"
    /\ Len(data_store[AVLName].insertion_order) < MaxStepLog
    /\ data_store' = [data_store EXCEPT ![AVLName] = insert_step(@, value, "tree")]
    /\ running' = [running EXCEPT !.writer =
                      [Idle EXCEPT !.pc = insert_next("tree"), !.value = value]]
    /\ UNCHANGED <<inserted, resp>>

\* The writer executes the next statement group of the insert in progress,
\* and returns after the last one.
AVLTree_insert_step ==
    LET pc == running.writer.pc
        value == running.writer.value
        next == insert_next(pc)
    IN  /\ pc # "idle"
        /\ data_store' = [data_store EXCEPT ![AVLName] = insert_step(@, value, pc)]
        /\ running' = [running EXCEPT !.writer =
                          IF next = "idle" THEN Idle ELSE [@ EXCEPT !.pc = next]]
        /\ inserted' = IF next = "idle"
                       THEN [inserted EXCEPT ![AVLName] = Append(@, value)]
                       ELSE inserted
        /\ resp' = IF next = "idle"
                   THEN Response("AVLTree.insert", AVLName, 0, "", "", EmptyStats, <<>>, {})
                   ELSE resp

\* Mutant of AVLTree_get_stats_call: the reader does not wait for an insert
\* in progress, whatever running.atomic says.
AVLTree_get_stats_call_unguarded(last_n) ==
    LET self == data_store[AVLName]
        k == IF last_n = None THEN 0 ELSE last_n[1][1]
    IN  /\ running.reader.pc = "idle"
        /\ IF self.count_values = 0
           THEN /\ resp' = Response("AVLTree.get_stats", AVLName, k, "", "empty",
                                    EmptyStats, self.insertion_order, {})
                /\ UNCHANGED running
           ELSE IF self._stats_cache # None /\ self._cache_last_n = last_n
           THEN /\ resp' = Response("AVLTree.get_stats", AVLName, k, "", "cached",
                                    self._stats_cache[1], self.insertion_order, {})
                /\ UNCHANGED running
           ELSE /\ running' = [running EXCEPT !.reader =
                                  [Idle EXCEPT !.pc = "read", !.last_n = last_n]]
                /\ UNCHANGED resp
        /\ UNCHANGED <<data_store, inserted>>

\* The reader calls get_stats(last_n): lines 168-180, the return of the empty
\* result or of the cached one, or else the call goes on to read the log.
AVLTree_get_stats_call(last_n) ==
    LET self == data_store[AVLName]
        k == IF last_n = None THEN 0 ELSE last_n[1][1]
    IN  /\ running.reader.pc = "idle"
        /\ running.atomic => running.writer.pc = "idle"
        /\ IF self.count_values = 0
           THEN /\ resp' = Response("AVLTree.get_stats", AVLName, k, "", "empty",
                                    EmptyStats, self.insertion_order, {})
                /\ UNCHANGED running
           ELSE IF self._stats_cache # None /\ self._cache_last_n = last_n
           THEN /\ resp' = Response("AVLTree.get_stats", AVLName, k, "", "cached",
                                    self._stats_cache[1], self.insertion_order, {})
                /\ UNCHANGED running
           ELSE /\ running' = [running EXCEPT !.reader =
                                  [Idle EXCEPT !.pc = "read", !.last_n = last_n]]
                /\ UNCHANGED resp
        /\ UNCHANGED <<data_store, inserted>>

\* Line 182 of get_stats: the window is copied from the insertion log.
AVLTree_get_stats_read ==
    /\ running.reader.pc = "read"
    /\ running' = [running EXCEPT !.reader.pc = "compute",
                                  !.reader.values =
                                     LastValues(data_store[AVLName].insertion_order,
                                                running.reader.last_n)]
    /\ UNCHANGED <<data_store, inserted, resp>>

\* Lines 184-204 of get_stats: the statistics of the copy are computed,
\* stored in the cache and returned.
AVLTree_get_stats_return ==
    LET last_n == running.reader.last_n
        stats == ComputeStats(running.reader.values)
    IN  /\ running.reader.pc = "compute"
        /\ data_store' = [data_store EXCEPT ![AVLName]._stats_cache = Some(stats),
                                            ![AVLName]._cache_last_n = last_n]
        /\ resp' = Response("AVLTree.get_stats", AVLName,
                            IF last_n = None THEN 0 ELSE last_n[1][1],
                            "", "computed", stats,
                            data_store[AVLName].insertion_order, {})
        /\ running' = [running EXCEPT !.reader = Idle]
        /\ UNCHANGED inserted

NextSteps ==
    \/ \E value \in StepValues : AVLTree_insert_call(value)
    \/ AVLTree_insert_step
    \/ \E last_n \in StepWindows : AVLTree_get_stats_call(last_n)
    \/ AVLTree_get_stats_read
    \/ AVLTree_get_stats_return

SpecSteps == InitSteps /\ [][NextSteps]_vars

(***************************************************************************)
(* Properties.                                                             *)
(***************************************************************************)
Range(seq) == {seq[i] : i \in DOMAIN seq}
Occurrences(seq, x) == Cardinality({i \in DOMAIN seq : seq[i] = x})
NonDecreasing(seq) == \A i \in 1..(Len(seq) - 1) : seq[i] <= seq[i + 1]
SameMultiset(a, b) ==
    \A x \in Range(a) \cup Range(b) : Occurrences(a, x) = Occurrences(b, x)

Returned(op) == resp.op = op /\ resp.exc = ""
NotFoundMessages(symbol) == {"Symbol not found", "Symbol " \o symbol \o " not found"}

WindowOf(log, k) ==
    LET n == Len(log)
        w == IF 10 ^ k < n THEN 10 ^ k ELSE n
    IN  [i \in 1..w |-> log[n - w + i]]

RECURSIVE SumOver(_, _)
SumOver(seq, i) == IF i = 0 THEN 0 ELSE seq[i] + SumOver(seq, i - 1)
Total(seq) == SumOver(seq, Len(seq))
TotalOfSquares(seq) == Total([i \in DOMAIN seq |-> seq[i] * seq[i]])

\* stats holds the minimum, maximum, last element, mean, population variance
\* and length of the non-empty list window.
IsStatsOf(stats, window) ==
    LET n == Len(window)
    IN  /\ stats.min[1] \in Range(window)
        /\ \A x \in Range(window) : stats.min[1] <= x
        /\ stats.max[1] \in Range(window)
        /\ \A x \in Range(window) : stats.max[1] >= x
        /\ stats.last[1] = window[n]
        /\ stats.size[1] = n
        /\ stats.avg[1][2] > 0
        /\ stats.avg[1][1] * n = stats.avg[1][2] * Total(window)
        /\ stats.var[1][2] > 0
        /\ stats.var[1][1] * n * n =
              stats.var[1][2] * (n * TotalOfSquares(window) - Total(window) * Total(window))

\* C2: for k in 1..8, get_stats(symbol, k) returns the min, max, last, avg,
\* population variance and size of exactly the last min(10^k, n) values of
\* the symbol in arrival order.
C2_WindowStats ==
    (Returned("get_stats") /\ resp.k \in 1..MAX_K_VALUE) =>
        IsStatsOf(resp.stats, WindowOf(inserted[resp.symbol], resp.k))

\* Witness of C2: a window of 10 values returned for a log of 11 values whose
\* oldest value is smaller than every value of the window.
C2_Witness ==
    /\ Returned("get_stats")
    /\ resp.k = 1
    /\ Len(inserted[resp.symbol]) = 11
    /\ resp.stats.size = Some(10)
    /\ inserted[resp.symbol][1] < resp.stats.min[1]

\* The exponents queried that Database.get_stats accepts.
AcceptedExponents == {k \in Exponents \cup WindowExponents : k >= 0 /\ ~ExponentRejected(k)}

\* C3: in every state, what get_stats(k) returns for a symbol (from the
\* cache or not) is what a computation over the symbol's current log gives.
C3_NeverStale ==
    \A s \in DOMAIN data_store : \A k \in AcceptedExponents :
        SixStats(data_store[s], Some(Pow10(k))).stats
            = ComputeStats(LastValues(inserted[s], Some(Pow10(k))))

\* Witness of C3: get_stats returned a result for a log that an insert has
\* changed the statistics of: a result computed before the last insert
\* differs from the one returned.
C3_Witness ==
    /\ Returned("get_stats")
    /\ Len(inserted[resp.symbol]) >= 2
    /\ data_store[resp.symbol]._stats_cache = Some(resp.stats)
    /\ LET log == inserted[resp.symbol]
       IN  resp.stats # ComputeStats(LastValues(SubSeq(log, 1, Len(log) - 1),
                                                Some(Pow10(resp.k))))

\* C4: a get_stats(k) that directly follows a get_stats(k) of the same symbol
\* returns the same result and leaves the store, the cache of the symbol
\* included, as it was.
C4_RepeatedStats ==
    [][(/\ Returned("get_stats")
        /\ resp'.op = "get_stats"
        /\ resp'.symbol = resp.symbol
        /\ resp'.k = resp.k)
       => (/\ resp'.exc = ""
           /\ resp'.stats = resp.stats
           /\ data_store' = data_store)]_vars

\* Witness of C4: get_stats returned the statistics of a window shorter than
\* the log, and the cache holds them under the window's length.
C4_Witness ==
    /\ Returned("get_stats")
    /\ data_store[resp.symbol]._stats_cache = Some(resp.stats)
    /\ data_store[resp.symbol]._cache_last_n = Some(Pow10(resp.k))
    /\ resp.stats.size[1] < Len(inserted[resp.symbol])

\* C5 as claimed: get_stats fails for every exponent outside 1..8, and
\* returns statistics only for exponents in 1..8.
C5_ExponentRange ==
    resp.op = "get_stats" =>
        /\ resp.k \notin 1..MAX_K_VALUE => resp.exc # ""
        /\ resp.exc = "" => resp.k \in 1..MAX_K_VALUE

\* The message the tests expect for a rejected exponent
\* (src/tests/test_stats_functional.py, line 29).
ExpectedExponentMessage == "'k' must be between 1 and 8"

\* C6 as claimed: a get_stats of an existing symbol with k above the limit
\* fails with a message that names the exponent and is not the message of an
\* unknown symbol.
C6_ExponentMessage ==
    (resp.op = "get_stats" /\ resp.k > MAX_K_VALUE /\ resp.symbol \in DOMAIN data_store) =>
        /\ resp.exc = "ValueError"
        /\ resp.detail = ExpectedExponentMessage
        /\ resp.detail \notin NotFoundMessages(resp.symbol)

\* C7: a rejected add_batch leaves the whole catalog as it was: no symbol is
\* created and no value of the batch is inserted.
C7_RejectedBatch ==
    [][(resp'.op = "add_batch" /\ resp'.exc # "")
       => (data_store' = data_store /\ inserted' = inserted)]_vars

\* Witness of C7: a batch with a negative value was rejected for a symbol the
\* catalog does not hold, while the catalog holds other symbols.
C7_Witness ==
    /\ resp.op = "add_batch"
    /\ resp.exc = "ValueError"
    /\ resp.detail = "All values must be greater than 0."
    /\ resp.symbol \notin DOMAIN data_store
    /\ DOMAIN data_store # {}

LimitMessage == "Symbols limit reached (10)."

\* C8: the catalog never holds more than 10 symbols; at 10 symbols an
\* add_batch of a new symbol fails with the symbols-limit error and changes
\* nothing; an add_batch of a symbol already present never gets that error,
\* nor does any add_batch below 10 symbols (after a delete_symbol or clear).
C8_SymbolLimit ==
    /\ [](Cardinality(DOMAIN data_store) <= MAX_SYMBOLS_COUNT)
    /\ [][resp'.op = "add_batch" =>
            /\ (/\ Cardinality(DOMAIN data_store) >= MAX_SYMBOLS_COUNT
                /\ resp'.symbol \notin DOMAIN data_store
                /\ Len(resp'.symbol) <= MAX_SYMBOLS_LENGTH)
               => (/\ resp'.exc = "ValueError"
                   /\ resp'.detail = LimitMessage
                   /\ data_store' = data_store)
            /\ (\/ resp'.symbol \in DOMAIN data_store
                \/ Cardinality(DOMAIN data_store) < MAX_SYMBOLS_COUNT)
               => resp'.detail # LimitMessage]_vars

\* Witness of C8: with 10 symbols in the catalog, an add_batch of a symbol
\* that was already present has been accepted (its log holds two batches).
C8_Witness ==
    /\ Returned("add_batch")
    /\ Cardinality(DOMAIN data_store) = MAX_SYMBOLS_COUNT
    /\ Len(inserted[resp.symbol]) = 2

C10_DeleteSymbol ==
    /\ [](/\ DOMAIN inserted = DOMAIN data_store
          /\ \A s \in DOMAIN data_store :
                /\ data_store[s].insertion_order = inserted[s]
                /\ data_store[s].count_values = Len(inserted[s]))
    /\ [][(resp'.op = "delete_symbol" /\ resp'.symbol \in DOMAIN data_store)
          => (/\ resp'.exc = ""
              /\ DOMAIN data_store' = DOMAIN data_store \ {resp'.symbol}
              /\ \A s \in DOMAIN data_store' : data_store'[s] = data_store[s])]_vars

\* Witness of C10: a symbol has been deleted while another symbol with a
\* filled cache stays in the catalog.
C10_Witness ==
    /\ Returned("delete_symbol")
    /\ resp.symbol \notin DOMAIN data_store
    /\ \E s \in DOMAIN data_store :
          /\ data_store[s]._stats_cache # None
          /\ Len(inserted[s]) = 2

C12_SymbolsListed ==
    /\ [](/\ DOMAIN data_store = DOMAIN inserted
          /\ \A s \in DOMAIN inserted : Len(inserted[s]) >= 1
          /\ Returned("get_symbols") => resp.symbols = DOMAIN inserted)
    /\ [][(\/ resp'.op \in {"get_stats", "get_values", "get_symbols"}
           \/ (resp'.op = "add_batch" /\ resp'.exc # ""))
          => DOMAIN data_store' = DOMAIN data_store]_vars

\* Witness of C12: get_symbols returned the one symbol of the catalog, which
\* is not the first of the symbols requests name and holds two values.
C12_Witness ==
    /\ Returned("get_symbols")
    /\ resp.symbols = {"B"}
    /\ Len(inserted["B"]) = 2

\* Lists of one number and of two numbers out of -1, 0 and 1.
SignedLists ==
    LET numbers == {PyNumber(x) : x \in {-1, 0, 1}}
    IN  {<<a>> : a \in numbers} \cup {<<a, b>> : a, b \in numbers}

RECURSIVE NodesOf(_)
NodesOf(node) ==
    IF node = None THEN <<>>
    ELSE NodesOf(node[1].left)
         \o <<[value |-> node[1].value, count |-> node[1].count]>>
         \o NodesOf(node[1].right)

\* C14: for every value inserted, however many times, the tree has exactly
\* one node with that key and the count of the node is the number of times
\* the value was inserted; get_values lists the value that many times; and
\* the size reported is the number of inserts, duplicates included.
C14_DuplicateCount ==
    \A s \in DOMAIN data_store :
       LET bst == data_store[s]
           nodes == NodesOf(bst.root)
           log == inserted[s]
       IN  /\ {nodes[i].value : i \in DOMAIN nodes} = Range(log)
           /\ \A x \in Range(log) :
                 /\ Cardinality({i \in DOMAIN nodes : nodes[i].value = x}) = 1
                 /\ \A i \in DOMAIN nodes :
                       nodes[i].value = x => nodes[i].count = Occurrences(log, x)
                 /\ Occurrences(get_all_values(bst), x) = Occurrences(log, x)
           /\ bst.count_values = Len(log)
           /\ SixStats(bst, Some(Pow10(MAX_K_VALUE))).stats.size = Some(Len(log))

\* Witness of C14: get_values returned five values of which one occurs three
\* times, from a tree of three nodes.
C14_Witness ==
    /\ Returned("get_values")
    /\ Len(resp.values) = 5
    /\ \E x \in Range(resp.values) : Occurrences(resp.values, x) = 3
    /\ Len(NodesOf(data_store[resp.symbol].root)) = 3

\* A tree without its cache pair: the search tree, the insertion log and the
\* running aggregates.
DataOf(bst) == [bst EXCEPT !._stats_cache = None, !._cache_last_n = None]

\* C15: a get_values step changes nothing of the store; a get_stats step,
\* whether it returns or raises, changes at most the cache pair of a tree,
\* never a search tree, an insertion log or a running aggregate; so the
\* sorted export of every symbol is the same after a query as before, what
\* get_values returns is the export of the state it was called in, and two
\* consecutive calls of get_values for a symbol return the same list.
C15_QueriesReadOnly ==
    [][/\ resp'.op = "get_values" => data_store' = data_store
       /\ resp'.op = "get_stats" =>
             /\ DOMAIN data_store' = DOMAIN data_store
             /\ \A s \in DOMAIN data_store :
                   DataOf(data_store'[s]) = DataOf(data_store[s])
       /\ resp'.op \in {"get_values", "get_stats"} =>
             \A s \in DOMAIN data_store :
                /\ s \in DOMAIN data_store'
                /\ get_all_values(data_store'[s]) = get_all_values(data_store[s])
                /\ data_store'[s].insertion_order = inserted[s]
       /\ (resp'.op = "get_values" /\ resp'.exc = "") =>
             resp'.values = get_all_values(data_store[resp'.symbol])
       /\ (Returned("get_values") /\ resp'.op = "get_values" /\ resp'.exc = ""
              /\ resp'.symbol = resp.symbol) =>
             resp'.values = resp.values]_vars

\* Witness of C15: get_values returned two values for a symbol whose cache
\* is filled: a get_stats came after the last insert and before this call.
C15_Witness ==
    /\ Returned("get_values")
    /\ Len(resp.values) = 2
    /\ data_store[resp.symbol]._stats_cache # None

\* The statistics of the example list with a given variance; the average
\* 151.72 is 1517.2 tenths.
ExampleStats(var) ==
    [min |-> Some(1498), max |-> Some(1554), last |-> Some(1498),
     avg |-> Some(Rat(15172, 10)), var |-> Some(var), size |-> Some(5)]

ExampleSorted == <<1498, 1501, 1510, 1523, 1554>>

\* C16, as stated: once the five values of the example are stored for a
\* fresh symbol, get_stats with any k in 1..8 returns min 149.8, max 155.4,
\* last 149.8, avg 151.72, var 4.1736 (417.36 squared tenths) and size 5, and
\* get_values returns 149.8, 150.1, 151.0, 152.3, 155.4.
C16_Example ==
    /\ (Returned("get_stats") /\ resp.k \in 1..MAX_K_VALUE
           /\ inserted[resp.symbol] = ExampleValues)
          => resp.stats = ExampleStats(Rat(41736, 100))
    /\ (Returned("get_values") /\ inserted[resp.symbol] = ExampleValues)
          => resp.values = ExampleSorted

\* C16, amended: the same with var 4.1416 (414.16 squared tenths), the
\* population variance of the five values.
C16_ExampleAmended ==
    /\ (Returned("get_stats") /\ resp.k \in 1..MAX_K_VALUE
           /\ inserted[resp.symbol] = ExampleValues)
          => resp.stats = ExampleStats(Rat(41416, 100))
    /\ (Returned("get_values") /\ inserted[resp.symbol] = ExampleValues)
          => resp.values = ExampleSorted

\* Witness of C16: get_stats returned for k = 1 with the five values stored.
C16_Witness ==
    /\ Returned("get_stats")
    /\ resp.k = 1
    /\ inserted[resp.symbol] = ExampleValues

\* The tree of a symbol after one add_batch call, on an empty catalog, with
\* a list of numbers.
OneCall(symbol, numbers) ==
    StoreBatch(EmptyStore, symbol, [i \in DOMAIN numbers |-> PyNumber(numbers[i])])[symbol]

\* C18: however the values received so far were cut into chunks, the symbol
\* is in the state one add_batch call with the concatenated list leaves: the
\* same tree, log and aggregates, the same list from get_values, the same
\* statistics from get_stats for every k from 1 to 8, and last is the final
\* value of the final chunk.
C18_ChunksAsOne ==
    \A s \in DOMAIN data_store :
       LET one == OneCall(s, inserted[s])
           bst == data_store[s]
       IN  /\ DataOf(bst) = DataOf(one)
           /\ get_all_values(bst) = get_all_values(one)
           /\ \A k \in 1..MAX_K_VALUE :
                 /\ SixStats(bst, Some(Pow10(k))).stats = SixStats(one, Some(Pow10(k))).stats
                 /\ SixStats(bst, Some(Pow10(k))).stats.last
                       = Some(inserted[s][Len(inserted[s])])

\* Witness of C18: the last chunk of the list has been accepted; the list is
\* longer than the longest chunk, so it arrived in two chunks or more.
C18_Witness ==
    /\ Returned("add_batch")
    /\ inserted[resp.symbol] = ExampleValues
    /\ Len(ExampleValues) > MaxChunk
    /\ data_store[resp.symbol].insertion_order = ExampleValues

C17_Unwindowed ==
    /\ \A s \in DOMAIN data_store :
          LET bst == data_store[s]
              n == Len(inserted[s])
              all == get_stats(bst, None)
          IN  n >= 1 =>
                /\ all.exc = ""
                /\ IsStatsOf(all.stats, inserted[s])
                /\ all.stats.last = Some(inserted[s][n])
                /\ all.stats.size = Some(n)
                /\ n = 1 => all.stats.var = Some(RatOfInt(0))
                /\ \A w \in n..(MaxAVLLog + 1) :
                      get_stats(bst, Some(RatOfInt(w))).stats = all.stats
    /\ (resp.op = "AVLTree.get_stats" /\ resp.k = 0 /\ inserted[resp.symbol] # <<>>) =>
          /\ resp.exc = ""
          /\ IsStatsOf(resp.stats, inserted[resp.symbol])

\* Witness of C17: get_stats(None) returned for a tree of three values, not
\* all equal, the last of which is neither the least nor the greatest.
C17_Witness ==
    /\ resp.op = "AVLTree.get_stats"
    /\ resp.k = 0
    /\ resp.exc = ""
    /\ Len(inserted[resp.symbol]) = 3
    /\ resp.stats.last # resp.stats.min
    /\ resp.stats.last # resp.stats.max

\* C19: an add_batch (accepted or rejected), a get_stats (cache update
\* included) and a get_values on a symbol leave every other symbol of the
\* catalog in the catalog with the same tree, log, aggregates and cache pair
\* (all that get_values and get_stats read), and with the same history.
C19_OtherSymbols ==
    [][resp'.op \in {"add_batch", "get_stats", "get_values"} =>
          \A b \in DOMAIN data_store \ {resp'.symbol} :
             /\ b \in DOMAIN data_store'
             /\ data_store'[b] = data_store[b]
             /\ inserted'[b] = inserted[b]]_vars

\* Witness of C19: a batch has just been accepted for symbol A, which now
\* holds two values, while the cache of symbol B is still filled.
C19_Witness ==
    /\ Returned("add_batch")
    /\ resp.symbol = "A"
    /\ Len(inserted["A"]) = 2
    /\ "B" \in DOMAIN data_store
    /\ data_store["B"]._stats_cache # None

\* The height of a tree, counted over its nodes: 0 for an absent child.
RECURSIVE ActualHeight(_)
ActualHeight(node) ==
    IF node = None THEN 0
    ELSE 1 + Max2(ActualHeight(node[1].left), ActualHeight(node[1].right))

\* Every node of the tree has subtrees whose heights differ by at most 1.
RECURSIVE IsBalanced(_)
IsBalanced(node) ==
    \/ node = None
    \/ /\ Abs(ActualHeight(node[1].left) - ActualHeight(node[1].right)) <= 1
       /\ IsBalanced(node[1].left)
       /\ IsBalanced(node[1].right)

\* C21: after every insert, whatever the order of the keys inserted and with
\* duplicates among them, the subtrees of every node of every stored tree
\* differ in actual height by at most 1.
C21_Balanced ==
    \A s \in DOMAIN data_store : IsBalanced(data_store[s].root)

\* Witness of C21: the keys 3, 1, 2, 5, 4 were inserted, which takes a
\* left-right and a right-left double rotation, and left a tree of height 3
\* with 2 at the root and 4 above 3 and 5.
C21_Witness ==
    /\ TreeSymbol \in DOMAIN data_store
    /\ inserted[TreeSymbol] = <<3, 1, 2, 5, 4>>
    /\ data_store[TreeSymbol].root[1].value = 2
    /\ data_store[TreeSymbol].root[1].right[1].value = 4
    /\ ActualHeight(data_store[TreeSymbol].root) = 3

\* The keys of the nodes of a tree.
RECURSIVE KeysOf(_)
KeysOf(node) ==
    IF node = None THEN {}
    ELSE KeysOf(node[1].left) \cup {node[1].value} \cup KeysOf(node[1].right)

\* At every node the keys of the left subtree are smaller than the key of the
\* node and the keys of the right subtree are greater.
RECURSIVE IsSearchTree(_)
IsSearchTree(node) ==
    \/ node = None
    \/ /\ \A x \in KeysOf(node[1].left) : x < node[1].value
       /\ \A x \in KeysOf(node[1].right) : x > node[1].value
       /\ IsSearchTree(node[1].left)
       /\ IsSearchTree(node[1].right)

\* C22: after every insert each stored tree is a search tree with one node
\* per distinct key inserted: at every node the keys to the left are strictly
\* smaller and the keys to the right strictly greater, and the in-order walk
\* of the node keys is strictly ascending.
C22_SearchTree ==
    \A s \in DOMAIN data_store :
       LET nodes == NodesOf(data_store[s].root)
       IN  /\ IsSearchTree(data_store[s].root)
           /\ \A i \in 1..(Len(nodes) - 1) : nodes[i].value < nodes[i + 1].value
           /\ Len(nodes) = Cardinality(Range(inserted[s]))

\* Witness of C22: five distinct keys arrived in ascending order, which takes
\* left rotations, and the root has keys on both sides.
C22_Witness ==
    /\ TreeSymbol \in DOMAIN data_store
    /\ inserted[TreeSymbol] = <<1, 2, 3, 4, 5>>
    /\ Cardinality(KeysOf(data_store[TreeSymbol].root[1].left)) >= 1
    /\ Cardinality(KeysOf(data_store[TreeSymbol].root[1].right)) >= 2

\* The height field of every node is 1 + the greater of the actual heights of
\* its subtrees.
RECURSIVE HeightsExact(_)
HeightsExact(node) ==
    \/ node = None
    \/ /\ node[1].height
            = 1 + Max2(ActualHeight(node[1].left), ActualHeight(node[1].right))
       /\ HeightsExact(node[1].left)
       /\ HeightsExact(node[1].right)

\* C23: after every insert, the height stored in every node of every stored
\* tree is 1 + max(actual height of the left subtree, actual height of the
\* right subtree), an absent child counting 0; so _get_height of the root is
\* the actual height of the tree.
C23_StoredHeights ==
    \A s \in DOMAIN data_store :
       /\ HeightsExact(data_store[s].root)
       /\ _get_height(data_store[s].root) = ActualHeight(data_store[s].root)

\* Witness of C23: the keys 5, 3, 4, 2, 1 were inserted: a left-right double
\* rotation at the root, then a single right rotation below the root, whose
\* stored height is 3.
C23_Witness ==
    /\ TreeSymbol \in DOMAIN data_store
    /\ inserted[TreeSymbol] = <<5, 3, 4, 2, 1>>
    /\ data_store[TreeSymbol].root[1].value = 4
    /\ data_store[TreeSymbol].root[1].left[1].value = 2
    /\ data_store[TreeSymbol].root[1].height = 3

\* The tree with the count of the node of key value raised by one and nothing
\* else changed.
RECURSIVE BumpCount(_, _)
BumpCount(node, value) ==
    IF node = None THEN None
    ELSE Some([value  |-> node[1].value,
               left   |-> BumpCount(node[1].left, value),
               right  |-> BumpCount(node[1].right, value),
               height |-> node[1].height,
               count  |-> IF node[1].value = value THEN node[1].count + 1
                          ELSE node[1].count])

\* C24: an insert of a value that the tree already holds leaves the tree as
\* it was but for the count of the node of that key, which grows by one: the
\* same nodes, the same links, the same heights, the other counts unchanged.
C24_DuplicateKeepsShape ==
    [][(/\ resp'.op = "add_batch"
        /\ resp'.exc = ""
        /\ resp'.symbol \in DOMAIN data_store
        /\ inserted'[resp'.symbol][Len(inserted'[resp'.symbol])]
              \in Range(inserted[resp'.symbol]))
       => LET s == resp'.symbol
              value == inserted'[s][Len(inserted'[s])]
          IN  /\ Len(inserted'[s]) = Len(inserted[s]) + 1
              /\ data_store'[s].root = BumpCount(data_store[s].root, value)
              /\ data_store'[s].root # data_store[s].root]_vars

\* Witness of C24: the last value inserted was in the tree already, at a node
\* below the root of a tree of height 3 with four nodes.
C24_Witness ==
    /\ Returned("add_batch")
    /\ LET log == inserted[resp.symbol]
           root == data_store[resp.symbol].root
       IN  /\ Len(log) = 5
           /\ Occurrences(log, log[5]) = 2
           /\ log[5] # root[1].value
           /\ Len(NodesOf(root)) = 4
           /\ ActualHeight(root) = 3

\* The number of values a tree holds, each node taken with its count.
TreeCount(bst) == Len(_inorder_traversal(bst.root))

\* A step of the writer: the first statement group of an insert, and the last.
InsertStarts == running.writer.pc = "idle" /\ running'.writer.pc # "idle"
InsertReturns == running.writer.pc # "idle" /\ running'.writer.pc = "idle"

\* The parts of C25 on which the statement and its amendment agree: an insert
\* starts with the tree insertion, which leaves log, aggregates and cache as
\* they were; it ends with the clearing of the cache, when tree, log and
\* aggregates all hold the value; no other statement of the insert touches
\* the cache.
TreeFirstCacheLast ==
    LET old == data_store[AVLName]
        new == data_store'[AVLName]
    IN  /\ InsertStarts =>
              /\ TreeCount(new) = TreeCount(old) + 1
              /\ new.insertion_order = old.insertion_order
              /\ new.count_values = old.count_values
              /\ new._stats_cache = old._stats_cache
        /\ InsertReturns =>
              /\ new = insert_invalidate(old)
              /\ TreeCount(old) = Len(old.insertion_order)
              /\ old.count_values = Len(old.insertion_order)
        /\ (running'.writer # running.writer /\ ~InsertReturns) =>
              /\ new._stats_cache = old._stats_cache
              /\ new._cache_last_n = old._cache_last_n

LastNOf(k) == IF k = 0 THEN None ELSE Some(RatOfInt(k))

\* What get_stats(last_n) has to return for a tree whose log is log.
StatsOfLog(log, last_n) ==
    IF log = <<>> THEN EmptyStats ELSE ComputeStats(LastValues(log, last_n))

\* The last call to return was a get_stats that took its result from the
\* cache, and the result is not that of the log as it was at the return.
StaleCached ==
    /\ resp.op = "AVLTree.get_stats"
    /\ resp.detail = "cached"
    /\ resp.stats # StatsOfLog(resp.values, LastNOf(resp.k))

\* C26: when every insert and query runs to its return before the next call
\* starts, every result of get_stats is that of the log at the return, the
\* cached ones included; a cached result that is not, which only interleaved
\* calls produce, is the result for the log without its newest values.
C26_StaleRead ==
    /\ running.atomic =>
          (resp.op = "AVLTree.get_stats" =>
              resp.stats = StatsOfLog(resp.values, LastNOf(resp.k)))
    /\ StaleCached =>
          /\ ~running.atomic
          /\ \E n \in 1..(Len(resp.values) - 1) :
                resp.stats = StatsOfLog(SubSeq(resp.values, 1, n), LastNOf(resp.k))

\* Witness of C26: an insert in progress has put its value into the tree, the
\* log and the aggregates and has not yet cleared the cache; get_stats has
\* just returned the cached result, which is that of the log without the
\* value.
C26_Witness ==
    LET self == data_store[AVLName]
        log == self.insertion_order
    IN  /\ StaleCached
        /\ running.writer.pc = "invalidate"
        /\ running.reader.pc = "idle"
        /\ log = resp.values
        /\ log[Len(log)] = running.writer.value
        /\ TreeCount(self) = Len(log)
        /\ self.count_values = Len(log)
        /\ resp.stats = StatsOfLog(SubSeq(log, 1, Len(log) - 1), LastNOf(resp.k))

\* The cache is empty or holds the statistics of the log for its window.
CacheValid(self) ==
    \/ self._stats_cache = None
    \/ self._stats_cache[1] = StatsOfLog(self.insertion_order, self._cache_last_n)

\* C27: when calls run one at a time, the cache is valid whenever no insert
\* is in progress.  In every case the cache changes only when an insert
\* clears it or a get_stats that computed stores its result, and a get_stats
\* for the window of a filled cache returns the content of the cache and
\* leaves it; so an invalid entry, which only interleaved calls produce,
\* is returned by the later calls for its window until the next insert.
C27_StaleCacheStays ==
    /\ []((running.atomic /\ running.writer.pc = "idle") => CacheValid(data_store[AVLName]))
    /\ [][LET old == data_store[AVLName]
              new == data_store'[AVLName]
          IN  /\ (new._stats_cache # old._stats_cache \/ new._cache_last_n # old._cache_last_n)
                   => \/ InsertReturns
                      \/ running.reader.pc = "compute" /\ running'.reader.pc = "idle"
              /\ (/\ resp'.op = "AVLTree.get_stats"
                  /\ running.reader.pc = "idle"
                  /\ running'.reader.pc = "idle"
                  /\ resp' # resp
                  /\ old.count_values > 0
                  /\ old._stats_cache # None
                  /\ old._cache_last_n = LastNOf(resp'.k))
                   => /\ resp'.stats = old._stats_cache[1]
                      /\ new = old]_vars

\* Witness of C27: no call is in progress, every insert has returned, and
\* get_stats has just returned from the cache, which it left as it was, a
\* result that omits the newest value of the log.
C27_Witness ==
    LET self == data_store[AVLName]
    IN  /\ ~running.atomic
        /\ running.writer.pc = "idle"
        /\ running.reader.pc = "idle"
        /\ StaleCached
        /\ resp.values = self.insertion_order
        /\ inserted[AVLName] = self.insertion_order
        /\ self._stats_cache = Some(resp.stats)
        /\ self._cache_last_n = LastNOf(resp.k)
        /\ ~CacheValid(self)

\* The sum of the counts of the nodes of a tree.
SumOfCounts(root) ==
    LET nodes == NodesOf(root) IN Total([i \in DOMAIN nodes |-> nodes[i].count])

C29_OneEntry ==
    /\ [](\A s \in DOMAIN data_store :
            LET self == data_store[s]
            IN  /\ self._stats_cache = None => self._cache_last_n = None
                /\ self._stats_cache # None =>
                      self._stats_cache[1]
                         = StatsOfLog(self.insertion_order, self._cache_last_n))
    /\ [][(resp'.op = "AVLTree.get_stats" /\ data_store[AVLName].count_values >= 1) =>
            LET old == data_store[AVLName]
                new == data_store'[AVLName]
                last_n == LastNOf(resp'.k)
                right == StatsOfLog(old.insertion_order, last_n)
            IN  /\ resp'.exc = ""
                /\ resp'.stats = right
                /\ new._stats_cache = Some(right)
                /\ new._cache_last_n = last_n
                /\ DataOf(new) = DataOf(old)]_vars

\* Witness of C29: get_stats(2) has returned the statistics of the last two
\* of three values, not all equal, and the cache holds the pair of 2 and that
\* result.
C29_Witness ==
    LET self == data_store[AVLName]
    IN  /\ resp.op = "AVLTree.get_stats"
        /\ resp.k = 2
        /\ Len(self.insertion_order) = 3
        /\ resp.stats.size = Some(2)
        /\ resp.stats.min # resp.stats.max
        /\ self._cache_last_n = Some(RatOfInt(2))
        /\ self._stats_cache = Some(resp.stats)
        /\ resp.stats # StatsOfLog(self.insertion_order, None)

\* C30: every tree of the catalog holds at least one value (count_values >=
\* 1, a root, a non-empty log), so for a symbol of the catalog get_values
\* never returns the empty list and get_stats never a result with a None.
C30_Populated ==
    /\ \A s \in DOMAIN data_store :
          LET self == data_store[s]
              stats == SixStats(self, Some(Pow10(1))).stats
          IN  /\ self.count_values >= 1
              /\ self.root # None
              /\ self.insertion_order # <<>>
              /\ get_all_values(self) # <<>>
              /\ \A key \in DOMAIN stats : stats[key] # None
    /\ Returned("get_values") => resp.values # <<>>
    /\ Returned("get_stats") => \A key \in DOMAIN resp.stats : resp.stats[key] # None

\* Witness of C30: get_stats has returned for the tenth symbol of the
\* catalog, which holds one value.
C30_Witness ==
    /\ Returned("get_stats")
    /\ resp.symbol = "S10"
    /\ Cardinality(DOMAIN data_store) = MAX_SYMBOLS_COUNT
    /\ resp.stats.size = Some(1)

====
